---- MODULE Spec2Model ----
(***************************************************************************)
(* Model of data-view-render.js: the catalog loader (loadProducts,         *)
(* parseRow and the normalisation helpers) and the incremental renderer    *)
(* (renderMore, onScroll, initDataView, the wrapped navigate and the load  *)
(* event handler).                                                         *)
(*                                                                         *)
(* A JavaScript string is a sequence of one-character strings, so that     *)
(* split, trim and the regular expressions are computed character by       *)
(* character.                                                              *)
(***************************************************************************)
EXTENDS Integers, Sequences, FiniteSets, TLC

VARIABLES
    PRODUCTS,       \* let PRODUCTS: the record sequence
    rendered,       \* let rendered: the cursor r
    initialized,    \* let initialized: the latch
    grid,           \* let grid: "undefined" or "main"
    footerEl,       \* let footerEl: "undefined" or "footer"
    dataView,       \* DOM: #data-view is "absent", "hidden" or "visible"
    mainNode,       \* DOM: #data-view has a <main>
    mainChildren,   \* DOM: the children of that <main>, in order
    footerNode,     \* DOM: #data-view has a <footer>
    footerText,     \* DOM: textContent of that <footer>
    loadPc,         \* position of the async load handler
    body,           \* the response body of the fetch, once a response arrived
    scrollListener, \* the scroll listener is registered
    timers,         \* pending setTimeout(initDataView, 50) callbacks
    hasOriginalNavigate, \* window.navigate existed when the script ran
    uncaught,       \* a handler ended with an uncaught exception
    batches,        \* renderMore calls made from the activation render on
    lastEvent,      \* the handler that ran last, with its inputs
    call            \* a helper function applied on its own: argument, result

vars == <<PRODUCTS, rendered, initialized, grid, footerEl, dataView, mainNode,
          mainChildren, footerNode, footerText, loadPc, body, scrollListener,
          timers, hasOriginalNavigate, uncaught, batches, lastEvent, call>>

(***************************************************************************)
(* Strings                                                                 *)
(***************************************************************************)

\* The white space String.prototype.trim and the regex class \s remove,
\* among the characters the inputs are drawn from.
WhiteSpace == {" ", "\t", "\n", "\r"}

LowerCase == <<"a","b","c","d","e","f","g","h","i","j","k","l","m",
               "n","o","p","q","r","s","t","u","v","w","x","y","z">>

UpperCase == <<"A","B","C","D","E","F","G","H","I","J","K","L","M",
               "N","O","P","Q","R","S","T","U","V","W","X","Y","Z">>

DecimalDigits == <<"0","1","2","3","4","5","6","7","8","9">>

MinOf(S) == CHOOSE a \in S : \A b \in S : a <= b

MaxOf(S) == CHOOSE a \in S : \A b \in S : a >= b

\* String.prototype.trim
trim(s) ==
    LET keep == {i \in 1..Len(s) : s[i] \notin WhiteSpace}
    IN  IF keep = {} THEN <<>> ELSE SubSeq(s, MinOf(keep), MaxOf(keep))

toUpperChar(c) ==
    IF \E i \in 1..26 : LowerCase[i] = c
    THEN UpperCase[CHOOSE i \in 1..26 : LowerCase[i] = c] ELSE c

toLowerChar(c) ==
    IF \E i \in 1..26 : UpperCase[i] = c
    THEN LowerCase[CHOOSE i \in 1..26 : UpperCase[i] = c] ELSE c

\* String.prototype.toLowerCase
toLowerCase(s) == [i \in 1..Len(s) |-> toLowerChar(s[i])]

\* The k-th (1-based) smallest element of a set of positions.
NthOf(P, k) == CHOOSE i \in P : Cardinality({j \in P : j < i}) = k - 1

\* String.prototype.split(sep) for a one-character separator: the pieces
\* between the occurrences of sep, empty pieces kept.
split(s, sep) ==
    LET P == {i \in 1..Len(s) : s[i] = sep}
        n == Cardinality(P)
        from(k) == IF k = 1 THEN 1 ELSE NthOf(P, k - 1) + 1
        to(k) == IF k = n + 1 THEN Len(s) ELSE NthOf(P, k) - 1
    IN  [k \in 1..(n + 1) |-> SubSeq(s, from(k), to(k))]

\* text.split(/\r?\n/): the separator is a line feed together with the
\* carriage return right before it, if there is one; so every piece that a
\* line feed ends loses one trailing carriage return, the last piece none.
splitLines(text) ==
    LET pieces == split(text, "\n")
        n == Len(pieces)
        chop(p) == IF Len(p) > 0 /\ p[Len(p)] = "\r"
                   THEN SubSeq(p, 1, Len(p) - 1) ELSE p
    IN  [k \in 1..n |-> IF k < n THEN chop(pieces[k]) ELSE pieces[k]]

\* .filter(Boolean) on an array of strings: the empty string is the only
\* falsy one.
filterBoolean(arr) == SelectSeq(arr, LAMBDA p : p # <<>>)

\* The capture group of the leftmost match of /o([^c]+)c/ in s, where o and
\* c are the opening and the closing character; <<>> without a match
\* (the "|| [null, ''])[1]" of the callers).  A match that starts at i ends
\* at a j with one or more characters between them, none of them c.
matchSpan(s, i, j, o, c) ==
    /\ s[i] = o
    /\ s[j] = c
    /\ j > i + 1
    /\ \A k \in (i + 1)..(j - 1) : s[k] # c

matchAt(s, i, o, c) == \E j \in (i + 2)..Len(s) : matchSpan(s, i, j, o, c)

hasMatch(s, o, c) == \E i \in 1..Len(s) : matchAt(s, i, o, c)

firstGroup(s, o, c) ==
    IF ~hasMatch(s, o, c) THEN <<>>
    ELSE LET i == MinOf({a \in 1..Len(s) : matchAt(s, a, o, c)})
             j == CHOOSE b \in (i + 2)..Len(s) : matchSpan(s, i, b, o, c)
         IN  SubSeq(s, i + 1, j - 1)

\* s.replace(/x/g, "") for a one-character pattern.
removeAll(s, x) == SelectSeq(s, LAMBDA ch : ch # x)

isDigit(ch) == \E d \in 1..10 : DecimalDigits[d] = ch

digitValue(ch) == (CHOOSE d \in 1..10 : DecimalDigits[d] = ch) - 1

RECURSIVE digitsValue(_)
digitsValue(ds) ==
    IF ds = <<>> THEN 0
    ELSE 10 * digitsValue(SubSeq(ds, 1, Len(ds) - 1)) + digitValue(ds[Len(ds)])

RECURSIVE digitsOf(_)
digitsOf(n) ==
    IF n < 10 THEN <<DecimalDigits[n + 1]>>
    ELSE Append(digitsOf(n \div 10), DecimalDigits[(n % 10) + 1])

(***************************************************************************)
(* Normalisation helpers                                                   *)
(***************************************************************************)

\* capitalize(word)
capitalize(word) ==
    IF word = <<>> THEN <<>>
    ELSE <<toUpperChar(word[1])>> \o SubSeq(word, 2, Len(word))

\* Number(s) for a string of the shapes the inputs contain: the empty (or
\* all-blank) string is 0; an optional sign followed by Infinity is
\* infinite; an optional sign followed by digits with an optional "."
\* and more digits (at least one digit in all) is that decimal; anything
\* else is NaN.  A decimal is kept exactly, as its sign, its value in
\* thousandths cut after the third fractional digit, and whether digits
\* other than 0 follow the third.
NaN == [kind |-> "nan", neg |-> FALSE, milli |-> 0, more |-> FALSE]

Number(str) ==
    LET s == trim(str)
        signed == Len(s) > 0 /\ s[1] \in {"+", "-"}
        neg == Len(s) > 0 /\ s[1] = "-"
        u == IF signed THEN SubSeq(s, 2, Len(s)) ELSE s
        dots == {i \in 1..Len(u) : u[i] = "."}
        dot == IF dots = {} THEN Len(u) + 1 ELSE MinOf(dots)
        ip == SubSeq(u, 1, dot - 1)
        fp == SubSeq(u, dot + 1, Len(u))
        pad == fp \o <<"0", "0", "0">>
    IN  IF s = <<>> THEN [kind |-> "num", neg |-> FALSE, milli |-> 0, more |-> FALSE]
        ELSE IF u = <<"I","n","f","i","n","i","t","y">>
        THEN [kind |-> "inf", neg |-> neg, milli |-> 0, more |-> FALSE]
        ELSE IF /\ Cardinality(dots) <= 1
                /\ Len(ip) + Len(fp) > 0
                /\ \A i \in 1..Len(ip) : isDigit(ip[i])
                /\ \A i \in 1..Len(fp) : isDigit(fp[i])
        THEN [kind |-> "num", neg |-> neg,
              milli |-> 1000 * digitsValue(ip) + digitsValue(SubSeq(pad, 1, 3)),
              more |-> \E i \in 4..Len(fp) : fp[i] # "0"]
        ELSE NaN

\* isFinite(n)
isFinite(n) == n.kind = "num"

\* The double nearest to k thousandths, k ending in 5, against k thousandths
\* itself.  A double has a significand of 53 bits: with e the exponent that
\* puts k * 2^e / 1000 between 2^52 and 2^53, the double is that quotient
\* rounded to an integer, so it lies above k thousandths when the remainder
\* of k * 2^e by 1000 is more than 500, below when it is less, and is k
\* thousandths exactly when the remainder is 0 (500 cannot occur).
RECURSIVE log2floor(_)
log2floor(n) == IF n < 2 THEN 0 ELSE 1 + log2floor(n \div 2)

RECURSIVE shiftsToUnit(_)
shiftsToUnit(k) == IF k >= 1000 THEN 0 ELSE 1 + shiftsToUnit(2 * k)

RECURSIVE pow2mod1000(_)
pow2mod1000(e) == IF e = 0 THEN 1 ELSE (2 * pow2mod1000(e - 1)) % 1000

doubleNotBelow(k) ==
    LET e == IF k >= 1000 THEN 52 - log2floor(k \div 1000)
             ELSE 52 + shiftsToUnit(k)
        rem == ((k % 1000) * pow2mod1000(e)) % 1000
    IN  rem = 0 \/ rem > 500

\* n.toFixed(2): the hundredths nearest to the double n, the larger of two
\* equally near, with two fractional digits and a "-" for a number below
\* zero.  The third fractional digit of the decimal decides; when it is a 5
\* that nothing follows, the double decides: 1.005 is a double below 1.005
\* and gives 1.00, 8.345 is one above and gives 8.35, 0.125 is exact and
\* gives 0.13.
toFixed2(n) ==
    LET third == n.milli % 10
        up == \/ third > 5
              \/ third = 5 /\ (n.more \/ doubleNotBelow(n.milli))
        cents == (n.milli \div 10) + (IF up THEN 1 ELSE 0)
        frac == cents % 100
        minus == n.neg /\ (n.milli > 0 \/ n.more)
    IN  (IF minus THEN <<"-">> ELSE <<>>)
        \o digitsOf(cents \div 100) \o <<".">>
        \o <<DecimalDigits[(frac \div 10) + 1], DecimalDigits[(frac % 10) + 1]>>

\* formatPrice(raw); Null stands for null and undefined (no string has an
\* element of more than one character).
Null == <<"null">>

\* formatPrice without its .trim().
formatPriceNoTrim(raw) ==
    IF raw = Null THEN <<"$", "0", ".", "0", "0">>
    ELSE LET s == removeAll(removeAll(raw, "$"), ",")
             n == Number(s)
         IN  IF ~isFinite(n) THEN <<"$">> \o s
             ELSE <<"$">> \o toFixed2(n)

formatPrice(raw) ==
    IF raw = Null THEN <<"$", "0", ".", "0", "0">>
    ELSE LET s == trim(removeAll(removeAll(raw, "$"), ","))
             n == Number(s)
         IN  IF ~isFinite(n) THEN <<"$">> \o s
             ELSE <<"$">> \o toFixed2(n)

\* The value updateRef forces on the ref parameter.
RefValue == <<"1","0","0","2","0","1","6","7","8">>

isAlpha(ch) == \E i \in 1..26 : LowerCase[i] = ch \/ UpperCase[i] = ch

isAlnum(ch) == isAlpha(ch) \/ isDigit(ch)

\* new URL(link), for links written with letters, digits and the
\* punctuation : / . - ? & = + #.  The scheme is a letter followed by
\* letters, digits, "+", "-" or "." up to the first ":"; a link without one
\* does not parse.  An http or https URL needs a host (what follows the
\* slashes after the scheme, up to the next "/"); host and scheme are
\* lower-cased and an empty path becomes "/".  Any other scheme keeps what
\* follows it as it is.  ok = FALSE stands for the TypeError.
schemeEnd(s) ==
    LET colons == {i \in 2..Len(s) : s[i] = ":"}
    IN  IF colons = {} THEN 0 ELSE MinOf(colons)

validScheme(s, p) ==
    /\ p > 1
    /\ isAlpha(s[1])
    /\ \A i \in 2..(p - 1) : isAlnum(s[i]) \/ s[i] \in {"+", "-", "."}

cutAt(s, ch) ==
    LET at == {i \in 1..Len(s) : s[i] = ch}
    IN  IF at = {} THEN Len(s) + 1 ELSE MinOf(at)

SpecialSchemes ==
    {<<"h","t","t","p">>, <<"h","t","t","p","s">>, <<"f","t","p">>,
     <<"w","s">>, <<"w","s","s">>}

NoURL == [ok |-> FALSE, scheme |-> <<>>, special |-> FALSE, host |-> <<>>,
          path |-> <<>>, hasQuery |-> FALSE, query |-> <<>>,
          hasFragment |-> FALSE, fragment |-> <<>>]

parseURL(s) ==
    LET p == schemeEnd(s)
    IN  IF ~validScheme(s, p) THEN NoURL
        ELSE
        LET scheme == toLowerCase(SubSeq(s, 1, p - 1))
            special == scheme \in SpecialSchemes
            rest == SubSeq(s, p + 1, Len(s))
            h == cutAt(rest, "#")
            noFrag == SubSeq(rest, 1, h - 1)
            q == cutAt(noFrag, "?")
            hier == SubSeq(noFrag, 1, q - 1)
            nonSlash == {i \in 1..Len(hier) : hier[i] # "/"}
            afterSlashes == IF nonSlash = {} THEN <<>>
                            ELSE SubSeq(hier, MinOf(nonSlash), Len(hier))
            e == cutAt(afterSlashes, "/")
            host == toLowerCase(SubSeq(afterSlashes, 1, e - 1))
            hpath == SubSeq(afterSlashes, e, Len(afterSlashes))
        IN  IF special /\ host = <<>> THEN NoURL
            ELSE [ok |-> TRUE, scheme |-> scheme, special |-> special,
                  host |-> IF special THEN host ELSE <<>>,
                  path |-> IF special
                           THEN (IF hpath = <<>> THEN <<"/">> ELSE hpath)
                           ELSE hier,
                  hasQuery |-> q <= Len(noFrag),
                  query |-> SubSeq(noFrag, q + 1, Len(noFrag)),
                  hasFragment |-> h <= Len(rest),
                  fragment |-> SubSeq(rest, h + 1, Len(rest))]

\* The printable ASCII characters in the order of their codes, 32 to 126
\* (the grave accent, code 96, cannot be written in a string here; "(96)"
\* holds its place and equals no character).
Ascii ==
    <<" ", "!", "\"", "#", "$", "%", "&", "'", "(", ")", "*", "+", ",", "-",
      ".", "/", "0", "1", "2", "3", "4", "5", "6", "7", "8", "9", ":", ";",
      "<", "=", ">", "?", "@", "A", "B", "C", "D", "E", "F", "G", "H", "I",
      "J", "K", "L", "M", "N", "O", "P", "Q", "R", "S", "T", "U", "V", "W",
      "X", "Y", "Z", "[", "\\", "]", "^", "_", "(96)", "a", "b", "c", "d", "e",
      "f", "g", "h", "i", "j", "k", "l", "m", "n", "o", "p", "q", "r", "s",
      "t", "u", "v", "w", "x", "y", "z", "{", "|", "}", "~">>

HexDigits ==
    <<"0","1","2","3","4","5","6","7","8","9","A","B","C","D","E","F">>

charCode(ch) == 31 + (CHOOSE i \in 1..Len(Ascii) : Ascii[i] = ch)

isHex(ch) == \E i \in 1..16 : HexDigits[i] = toUpperChar(ch)

hexValue(ch) == (CHOOSE i \in 1..16 : HexDigits[i] = toUpperChar(ch)) - 1

\* Percent-decoding, for the bytes that are printable ASCII: "%" and two
\* hexadecimal digits stand for the character of that code; any other "%"
\* stays.
RECURSIVE percentDecode(_)
percentDecode(s) ==
    IF s = <<>> THEN <<>>
    ELSE IF /\ s[1] = "%"
            /\ Len(s) >= 3
            /\ isHex(s[2])
            /\ isHex(s[3])
            /\ 16 * hexValue(s[2]) + hexValue(s[3]) \in 32..126
    THEN <<Ascii[16 * hexValue(s[2]) + hexValue(s[3]) - 31]>>
         \o percentDecode(SubSeq(s, 4, Len(s)))
    ELSE <<s[1]>> \o percentDecode(SubSeq(s, 2, Len(s)))

\* u.searchParams: the name=value pairs of the query, split at "&" (empty
\* pieces skipped) and at the first "=", with "+" decoded to a space and
\* then the percent-encoded bytes decoded.
plusToSpace(s) == [i \in 1..Len(s) |-> IF s[i] = "+" THEN " " ELSE s[i]]

parsePair(piece) ==
    LET e == cutAt(piece, "=")
    IN  [name |-> percentDecode(plusToSpace(SubSeq(piece, 1, e - 1))),
         value |-> percentDecode(plusToSpace(SubSeq(piece, e + 1, Len(piece))))]

searchParams(query) ==
    LET pieces == filterBoolean(split(query, "&"))
    IN  [k \in 1..Len(pieces) |-> parsePair(pieces[k])]

\* paramsSet as URLSearchParams.prototype.append: the pair is added after
\* the others, whatever they are.
paramsAppend(params, name, value) ==
    Append(params, [name |-> name, value |-> value])

\* URLSearchParams.prototype.set(name, value): the first pair of that name
\* takes the value and the later ones are removed; without one the pair is
\* appended.
paramsSet(params, name, value) ==
    LET at == {k \in 1..Len(params) : params[k].name = name}
    IN  IF at = {} THEN Append(params, [name |-> name, value |-> value])
        ELSE LET first == MinOf(at)
                 kept == {k \in 1..Len(params) : k = first \/ params[k].name # name}
             IN  [i \in 1..Cardinality(kept) |->
                    LET k == NthOf(kept, i)
                    IN  IF k = first THEN [name |-> name, value |-> value]
                        ELSE params[k]]

\* The application/x-www-form-urlencoded serialisation of one string of
\* printable ASCII: letters, digits, "*", "-", "." and "_" stay, a space
\* becomes "+", and any other character becomes "%" and its code in two
\* upper-case hexadecimal digits.
formEncodeChar(ch) ==
    IF isAlnum(ch) \/ ch \in {"*", "-", ".", "_"} THEN <<ch>>
    ELSE IF ch = " " THEN <<"+">>
    ELSE <<"%", HexDigits[(charCode(ch) \div 16) + 1],
           HexDigits[(charCode(ch) % 16) + 1]>>

RECURSIVE formEncode(_)
formEncode(s) ==
    IF s = <<>> THEN <<>>
    ELSE formEncodeChar(s[1]) \o formEncode(SubSeq(s, 2, Len(s)))

RECURSIVE serializeParams(_)
serializeParams(params) ==
    IF params = <<>> THEN <<>>
    ELSE formEncode(params[1].name) \o <<"=">> \o formEncode(params[1].value)
         \o (IF Len(params) > 1 THEN <<"&">> ELSE <<>>)
         \o serializeParams(SubSeq(params, 2, Len(params)))

\* u.toString()
serializeURL(u, query) ==
    u.scheme \o <<":">>
    \o (IF u.special THEN <<"/", "/">> \o u.host ELSE <<>>)
    \o u.path
    \o <<"?">> \o query
    \o (IF u.hasFragment THEN <<"#">> \o u.fragment ELSE <<>>)

\* updateRef(link)
updateRef(link) ==
    LET u == parseURL(link)
    IN  IF ~u.ok THEN link
        ELSE serializeURL(u, serializeParams(
                 paramsSet(searchParams(u.query), <<"r","e","f">>, RefValue)))

(***************************************************************************)
(* Catalog loader                                                          *)
(***************************************************************************)

\* The null parseRow returns for a row it rejects (no record has id 0).
NullRow ==
    [id |-> 0, name |-> <<>>, link |-> <<>>, price |-> <<>>,
     category |-> <<>>, image |-> <<>>]

\* parseRow without its "if (!name) return null".
parseRowKeepsNameless(line, index) ==
    LET parts == split(line, "\t")
    IN  IF Len(parts) < 3 THEN NullRow
        ELSE
        LET col1 == trim(parts[1])
            link == trim(firstGroup(col1, "(", ")"))
        IN  [id |-> index + 1,
             name |-> trim(firstGroup(col1, "[", "]")),
             link |-> IF link # <<>> THEN updateRef(link) ELSE link,
             price |-> formatPrice(trim(firstGroup(col1, "{", "}"))),
             category |-> toLowerCase(trim(firstGroup(col1, "%", "%"))),
             image |-> trim(parts[3])]

\* parseRow taking the price as "$" and the raw text, without formatPrice.
parseRowRawPrice(line, index) ==
    LET parts == split(line, "\t")
    IN  IF Len(parts) < 3 THEN NullRow
        ELSE
        LET col1 == trim(parts[1])
            name == trim(firstGroup(col1, "[", "]"))
            link == trim(firstGroup(col1, "(", ")"))
        IN  IF name = <<>> THEN NullRow
            ELSE [id |-> index + 1,
                  name |-> name,
                  link |-> IF link # <<>> THEN updateRef(link) ELSE link,
                  price |-> <<"$">> \o trim(firstGroup(col1, "{", "}")),
                  category |-> toLowerCase(trim(firstGroup(col1, "%", "%"))),
                  image |-> trim(parts[3])]

\* parseRow(line, index)
parseRow(line, index) ==
    LET parts == split(line, "\t")
    IN  IF Len(parts) < 3 THEN NullRow
        ELSE
        LET col1 == trim(parts[1])
            image == trim(parts[3])
            name == trim(firstGroup(col1, "[", "]"))
            link == trim(firstGroup(col1, "(", ")"))
            priceRaw == trim(firstGroup(col1, "{", "}"))
            category == toLowerCase(trim(firstGroup(col1, "%", "%")))
        IN  IF name = <<>> THEN NullRow
            ELSE [id |-> index + 1,
                  name |-> name,
                  link |-> IF link # <<>> THEN updateRef(link) ELSE link,
                  price |-> formatPrice(priceRaw),
                  category |-> category,
                  image |-> image]

\* /^\s*\[/.test(line)
startsWithBracket(line) ==
    \E i \in 1..Len(line) :
        line[i] = "[" /\ \A j \in 1..(i - 1) : line[j] \in WhiteSpace

\* The loop body handing parseRow the index of the line (i) instead of the
\* number of rows accepted so far (out.length).
parseStepLineIndex(lines, i, out) ==
    LET row == parseRow(lines[i], i - 1)
    IN  IF row # NullRow THEN Append(out, row) ELSE out

\* One pass of the loop body of loadProducts: line i, given the rows
\* accepted so far.
parseStep(lines, i, out) ==
    LET row == parseRow(lines[i], Len(out))
    IN  IF row # NullRow THEN Append(out, row) ELSE out

\* The loop of loadProducts from line i on, given the rows accepted so far.
\* (Len(next) is taken before the next pass so that each pass is evaluated in
\* its turn.)
RECURSIVE parseFrom(_, _, _)
parseFrom(lines, i, out) ==
    IF i > Len(lines) THEN out
    ELSE LET next == parseStep(lines, i, out)
         IN  IF Len(next) >= 0 THEN parseFrom(lines, i + 1, next) ELSE next

\* The lines of the response body.
linesOf(text) == filterBoolean(splitLines(text))

\* startIdx with the test of the first line inverted.
startIdxInverted(lines) == IF startsWithBracket(lines[1]) THEN 2 ELSE 1

\* The index (1-based) of the first line parsed as data.
startIdx(lines) == IF startsWithBracket(lines[1]) THEN 1 ELSE 2

\* loadProducts(), from the text of a successful response on.
loadProducts(text) ==
    LET lines == linesOf(text)
    IN  IF Len(lines) = 0 THEN <<>>
        ELSE parseFrom(lines, startIdx(lines), <<>>)

(***************************************************************************)
(* Incremental renderer                                                    *)
(***************************************************************************)

BATCH_SIZE == 24

\* The 600 of nearBottom.
NearBottomMargin == 600

Min(a, b) == IF a <= b THEN a ELSE b

\* A string literal as a sequence of characters.
Chars(str) == [i \in 1..Len(str) |-> SubSeq(str, i, i)]

\* createCard(p): the element, by what its markup interpolates.  An empty
\* link makes the "Link Checking" placeholder instead of the anchor.
createCard(p) ==
    [tag |-> "card", image |-> p.image, name |-> p.name,
     category |-> capitalize(p.category), price |-> p.price, link |-> p.link]

\* An element the page put into <main> before the script ran.
StaticChild ==
    [tag |-> "static", image |-> <<>>, name |-> <<>>, category |-> <<>>,
     price |-> <<>>, link |-> <<>>]

\* n.toLocaleString() in a locale that groups digits by three with ",".
toLocaleString(n) ==
    IF n < 1000 THEN digitsOf(n)
    ELSE LET low == n % 1000
         IN  digitsOf(n \div 1000) \o <<",">>
             \o <<DecimalDigits[(low \div 100) + 1],
                  DecimalDigits[((low \div 10) % 10) + 1],
                  DecimalDigits[(low % 10) + 1]>>

\* The status line with the two counts exchanged.
statusLineSwapped(r, total) ==
    Chars("Displaying ") \o toLocaleString(total) \o Chars(" of ")
    \o toLocaleString(r) \o Chars(" total items.")

\* The status line renderMore writes.
statusLine(r, total) ==
    Chars("Displaying ") \o toLocaleString(r) \o Chars(" of ")
    \o toLocaleString(total) \o Chars(" total items.")

\* What the handlers read and write, as one record they transform.
Current ==
    [PRODUCTS |-> PRODUCTS, rendered |-> rendered, initialized |-> initialized,
     grid |-> grid, footerEl |-> footerEl, dataView |-> dataView,
     mainNode |-> mainNode, mainChildren |-> mainChildren,
     footerNode |-> footerNode, footerText |-> footerText,
     threw |-> FALSE, calls |-> 0]

\* renderMore advancing the cursor by the batch size ("rendered +=
\* BATCH_SIZE") instead of to the end of what it appended.
renderMoreBySize(st) ==
    LET s == [st EXCEPT !.calls = @ + 1]
        total == Len(s.PRODUCTS)
        end == Min(s.rendered + BATCH_SIZE, total)
    IN  IF s.rendered >= total THEN s
        ELSE IF s.grid = "undefined" THEN [s EXCEPT !.threw = TRUE]
        ELSE [s EXCEPT
                !.mainChildren = @ \o [i \in 1..(end - s.rendered) |->
                                         createCard(s.PRODUCTS[s.rendered + i])],
                !.rendered = s.rendered + BATCH_SIZE,
                !.footerText = IF s.footerEl # "undefined"
                               THEN statusLine(end, total) ELSE @]

\* renderMore with its loop starting at 0 instead of at rendered.
renderMoreFromStart(st) ==
    LET s == [st EXCEPT !.calls = @ + 1]
        total == Len(s.PRODUCTS)
        end == Min(s.rendered + BATCH_SIZE, total)
    IN  IF s.rendered >= total THEN s
        ELSE IF s.grid = "undefined" THEN [s EXCEPT !.threw = TRUE]
        ELSE [s EXCEPT
                !.mainChildren = @ \o [i \in 1..end |-> createCard(s.PRODUCTS[i])],
                !.rendered = end,
                !.footerText = IF s.footerEl # "undefined"
                               THEN statusLine(end, total) ELSE @]

\* renderMore().  PRODUCTS is always an array, so "!PRODUCTS" is false.  With
\* grid still undefined the first grid.appendChild throws a TypeError, which
\* leaves rendered and the footer as they were.
renderMore(st) ==
    LET s == [st EXCEPT !.calls = @ + 1]
        total == Len(s.PRODUCTS)
        end == Min(s.rendered + BATCH_SIZE, total)
    IN  IF s.rendered >= total THEN s
        ELSE IF s.grid = "undefined" THEN [s EXCEPT !.threw = TRUE]
        ELSE [s EXCEPT
                !.mainChildren = @ \o [i \in 1..(end - s.rendered) |->
                                         createCard(s.PRODUCTS[s.rendered + i])],
                !.rendered = end,
                !.footerText = IF s.footerEl # "undefined"
                               THEN statusLine(end, total) ELSE @]

\* nearBottom with ">=" for ">".
nearBottomInclusive(scrollY, viewportH, fullH) ==
    (scrollY + viewportH) >= (fullH - NearBottomMargin)

\* nearBottom()
nearBottom(scrollY, viewportH, fullH) ==
    (scrollY + viewportH) > (fullH - NearBottomMargin)

\* onScroll with the test of "hidden" inverted.
onScrollWhileHidden(st, scrollY, viewportH, fullH) ==
    IF st.dataView # "hidden" THEN st
    ELSE IF nearBottom(scrollY, viewportH, fullH) THEN renderMore(st)
    ELSE st

\* onScroll()
onScroll(st, scrollY, viewportH, fullH) ==
    IF st.dataView # "visible" THEN st
    ELSE IF nearBottom(scrollY, viewportH, fullH) THEN renderMore(st)
    ELSE st

\* initDataView without its "if (initialized) return".
initDataViewNoLatch(st) ==
    IF st.dataView = "absent" THEN st
    ELSE LET scaffold == [st EXCEPT !.grid = "main", !.mainNode = TRUE,
                                    !.mainChildren = <<>>,
                                    !.footerEl = "footer", !.footerNode = TRUE]
         IN  [renderMore(scaffold) EXCEPT !.initialized = TRUE]

\* initDataView setting the latch before it looks for the mount point.
initDataViewLatchFirst(st) ==
    IF st.initialized THEN st
    ELSE IF st.dataView = "absent" THEN [st EXCEPT !.initialized = TRUE]
    ELSE LET scaffold == [st EXCEPT !.grid = "main", !.mainNode = TRUE,
                                    !.mainChildren = <<>>,
                                    !.footerEl = "footer", !.footerNode = TRUE]
         IN  [renderMore(scaffold) EXCEPT !.initialized = TRUE]

\* initDataView()
initDataView(st) ==
    IF st.initialized THEN st
    ELSE IF st.dataView = "absent" THEN st
    ELSE LET scaffold == [st EXCEPT !.grid = "main", !.mainNode = TRUE,
                                    !.mainChildren = <<>>,
                                    !.footerEl = "footer", !.footerNode = TRUE]
         IN  [renderMore(scaffold) EXCEPT !.initialized = TRUE]

\* The hook this script found in window.navigate, if any: the page's own
\* view switch, which shows #data-view for "data" and hides it otherwise.
originalNavigate(st, page) ==
    IF st.dataView = "absent" THEN st
    ELSE [st EXCEPT !.dataView = IF page = "data" THEN "visible" ELSE "hidden"]

\* What that hook returns: a value of its own for each page.
originalResult(page) == [defined |-> TRUE, page |-> page]

\* The load handler after its try/catch: init if the view is visible.
afterLoad(st) ==
    IF st.dataView = "visible" THEN initDataView(st) ELSE st

(***************************************************************************)
(* Inputs                                                                  *)
(***************************************************************************)

\* Pending activation timers the model tracks at once.
MaxTimers == 2

\* The count of renderMore calls is tracked up to this many.
MaxBatches == 4

\* Row i of a generated catalog: "[p<i>]{<i>}%c% TAB x TAB i<i>".
catalogRow(i) ==
    Chars("[p") \o digitsOf(i) \o Chars("]{") \o digitsOf(i)
    \o Chars("}%c%\tx\ti") \o digitsOf(i)

RECURSIVE catalogRows(_)
catalogRows(n) ==
    IF n = 0 THEN <<>>
    ELSE catalogRows(n - 1) \o <<"\n">> \o catalogRow(n)

\* A response body with a header line and n rows.
catalog(n) == Chars("name\tx\timage") \o catalogRows(n)

\* The bodies a successful response delivers to the renderer's runs: an
\* empty one, and catalogs of one row, of one full batch and of two batches
\* and a rest.
CatalogBodies ==
    {<<>>} \cup {catalog(n) : n \in {1, BATCH_SIZE, 2 * BATCH_SIZE + 2}}

Pages == {"data", "home"}

\* Scroll positions: <<scrollY, viewportH, fullH>> with the viewport inside
\* the document.
Geometries ==
    {g \in {0, 600} \X {800} \X {800, 1400, 2000} : g[1] + g[2] <= g[3]}

(***************************************************************************)
(* State machine                                                           *)
(***************************************************************************)

\* The undefined a function without a result returns.
Undefined == [defined |-> FALSE, page |-> ""]

NoEvent ==
    [type |-> "none", page |-> "", scrollY |-> 0, viewportH |-> 0,
     fullH |-> 0, calls |-> 0, threw |-> FALSE, hooked |-> <<>>,
     result |-> Undefined]

\* No helper is applied on its own.
NoCall == [fn |-> "none", arg |-> <<>>, done |-> FALSE, result |-> <<>>]

\* The state once the script has run, before any event.
ScriptRan ==
    /\ PRODUCTS = <<>>
    /\ rendered = 0
    /\ initialized = FALSE
    /\ grid = "undefined"
    /\ footerEl = "undefined"
    /\ dataView \in {"absent", "hidden", "visible"}
    /\ mainNode \in (IF dataView = "absent" THEN {FALSE} ELSE BOOLEAN)
    /\ mainChildren \in (IF mainNode THEN {<<>>, <<StaticChild>>} ELSE {<<>>})
    /\ footerNode \in (IF dataView = "absent" THEN {FALSE} ELSE BOOLEAN)
    /\ footerText = <<>>
    /\ loadPc = "idle"
    /\ body = <<>>
    /\ scrollListener = FALSE
    /\ timers = 0
    /\ hasOriginalNavigate \in BOOLEAN
    /\ uncaught = FALSE
    /\ batches = 0
    /\ lastEvent = NoEvent

Init ==
    /\ ScriptRan
    /\ call = NoCall

\* The handler's result becomes the state; an exception it let escape is
\* recorded.
Commit(st) ==
    /\ PRODUCTS' = st.PRODUCTS
    /\ rendered' = st.rendered
    /\ initialized' = st.initialized
    /\ grid' = st.grid
    /\ footerEl' = st.footerEl
    /\ dataView' = st.dataView
    /\ mainNode' = st.mainNode
    /\ mainChildren' = st.mainChildren
    /\ footerNode' = st.footerNode
    /\ footerText' = st.footerText
    /\ uncaught' = (uncaught \/ st.threw)

Event(type, page, g, st) ==
    [type |-> type, page |-> page, scrollY |-> g[1], viewportH |-> g[2],
     fullH |-> g[3], calls |-> st.calls, threw |-> st.threw, hooked |-> <<>>,
     result |-> Undefined]

\* batches: 1 at the activation render when the load has finished by then,
\* one more per later renderMore call, up to MaxBatches.
Counted(st, loaded) ==
    IF st.initialized /\ ~initialized THEN (IF loaded THEN 1 ELSE 0)
    ELSE IF batches >= 1 THEN Min(batches + st.calls, MaxBatches)
    ELSE batches

\* The load event: the handler starts and awaits fetch().
windowLoad ==
    /\ loadPc = "idle"
    /\ loadPc' = "fetching"
    /\ lastEvent' = Event("load", "", <<0, 0, 0>>, Current)
    /\ UNCHANGED <<PRODUCTS, rendered, initialized, grid, footerEl, dataView,
                   mainNode, mainChildren, footerNode, footerText, body,
                   scrollListener, timers, hasOriginalNavigate, uncaught,
                   batches, call>>

\* fetch() resolves with res.ok: loadProducts awaits res.text().
fetchOk(text) ==
    /\ loadPc = "fetching"
    /\ loadPc' = "reading"
    /\ body' = text
    /\ lastEvent' = Event("response", "", <<0, 0, 0>>, Current)
    /\ UNCHANGED <<PRODUCTS, rendered, initialized, grid, footerEl, dataView,
                   mainNode, mainChildren, footerNode, footerText,
                   scrollListener, timers, hasOriginalNavigate, uncaught,
                   batches, call>>

\* The rest of the load handler once PRODUCTS is assigned.
finishLoad(products, pc) ==
    LET st == afterLoad([Current EXCEPT !.PRODUCTS = products])
    IN  /\ Commit(st)
        /\ loadPc' = pc
        /\ scrollListener' = TRUE
        /\ batches' = Counted(st, TRUE)
        /\ lastEvent' = Event(pc, "", <<0, 0, 0>>, st)
        /\ UNCHANGED <<body, timers, hasOriginalNavigate, call>>

\* res.text() resolves: the rows are parsed and the handler runs to its end.
textOk ==
    /\ loadPc = "reading"
    /\ finishLoad(loadProducts(body), "loaded")

\* The load handler without its try/catch: the error of loadProducts ends
\* the handler, before the scroll listener is registered.
loadFailedEscapes ==
    /\ loadPc \in {"fetching", "reading"}
    /\ loadPc' = "failed"
    /\ uncaught' = TRUE
    /\ lastEvent' = Event("failed", "", <<0, 0, 0>>, [Current EXCEPT !.threw = TRUE])
    /\ UNCHANGED <<PRODUCTS, rendered, initialized, grid, footerEl, dataView,
                   mainNode, mainChildren, footerNode, footerText, body,
                   scrollListener, timers, hasOriginalNavigate, batches, call>>

\* fetch() rejects or the response is not ok, or res.text() rejects:
\* loadProducts throws and the handler's catch substitutes [].
loadFailed ==
    /\ loadPc \in {"fetching", "reading"}
    /\ finishLoad(<<>>, "failed")

\* The wrapper without its "if (page === 'data')": every navigation
\* schedules initDataView.
navigateAlwaysSchedules(page) ==
    /\ timers < MaxTimers
    /\ LET st == IF hasOriginalNavigate THEN originalNavigate(Current, page)
                 ELSE Current
       IN  /\ Commit(st)
           /\ lastEvent' =
                [Event("navigate", page, <<0, 0, 0>>, st) EXCEPT
                    !.hooked = IF hasOriginalNavigate THEN <<page>> ELSE <<>>,
                    !.result = IF hasOriginalNavigate THEN originalResult(page)
                               ELSE Undefined]
    /\ timers' = timers + 1
    /\ UNCHANGED <<loadPc, body, scrollListener, hasOriginalNavigate, batches,
                   call>>

\* window.navigate(page), the wrapper: the hook found at start-up, if any,
\* is called with page (hooked records the call) and its result returned;
\* for "data" initDataView is scheduled.
navigate(page) ==
    /\ page = "data" => timers < MaxTimers
    /\ LET st == IF hasOriginalNavigate THEN originalNavigate(Current, page)
                 ELSE Current
       IN  /\ Commit(st)
           /\ lastEvent' =
                [Event("navigate", page, <<0, 0, 0>>, st) EXCEPT
                    !.hooked = IF hasOriginalNavigate THEN <<page>> ELSE <<>>,
                    !.result = IF hasOriginalNavigate THEN originalResult(page)
                               ELSE Undefined]
    /\ timers' = IF page = "data" THEN timers + 1 ELSE timers
    /\ UNCHANGED <<loadPc, body, scrollListener, hasOriginalNavigate, batches,
                   call>>

\* A setTimeout(initDataView, 50) callback runs.
timerFired ==
    /\ timers > 0
    /\ timers' = timers - 1
    /\ LET st == initDataView(Current)
       IN  /\ Commit(st)
           /\ batches' = Counted(st, loadPc \in {"loaded", "failed"})
           /\ lastEvent' = Event("timer", "", <<0, 0, 0>>, st)
    /\ UNCHANGED <<loadPc, body, scrollListener, hasOriginalNavigate, call>>

\* A scroll event is delivered to onScroll.
scroll(g) ==
    /\ scrollListener
    /\ LET st == onScroll(Current, g[1], g[2], g[3])
       IN  /\ Commit(st)
           /\ batches' = Counted(st, TRUE)
           /\ lastEvent' = Event("scroll", "", g, st)
    /\ UNCHANGED <<loadPc, body, scrollListener, timers, hasOriginalNavigate, call>>

\* The page adds the #data-view element, hidden.
mountDataView(withMain, children, withFooter) ==
    /\ dataView = "absent"
    /\ dataView' = "hidden"
    /\ mainNode' = withMain
    /\ mainChildren' = (IF withMain THEN children ELSE <<>>)
    /\ footerNode' = withFooter
    /\ lastEvent' = Event("mount", "", <<0, 0, 0>>, Current)
    /\ UNCHANGED <<PRODUCTS, rendered, initialized, grid, footerEl, footerText,
                   loadPc, body, scrollListener, timers, hasOriginalNavigate,
                   uncaught, batches, call>>

Next ==
    \/ windowLoad
    \/ (loadPc = "fetching" /\ \E text \in CatalogBodies : fetchOk(text))
    \/ textOk
    \/ loadFailed
    \/ \E page \in Pages : navigate(page)
    \/ timerFired
    \/ \E g \in Geometries : scroll(g)
    \/ \E m \in BOOLEAN, f \in BOOLEAN : mountDataView(m, <<>>, f)

Spec == Init /\ [][Next]_vars

\* Qualifying scrolls (the view visible, the proximity predicate true) keep
\* being delivered.
qualifyingScroll ==
    /\ dataView = "visible"
    /\ \E g \in Geometries : nearBottom(g[1], g[2], g[3]) /\ scroll(g)

SpecLive == Init /\ [][Next]_vars /\ SF_vars(qualifyingScroll)

(***************************************************************************)
(* Properties of the renderer                                              *)
(***************************************************************************)

\* The cards in <main>, in order.
Cards == SelectSeq(mainChildren, LAMBDA c : c.tag = "card")

\* The cards of the records at the (0-based) indices from..(to - 1).
cardsOf(products, from, to) ==
    [i \in 1..(to - from) |-> createCard(products[from + i])]

\* The scroll event that ran last met the view visible and the proximity
\* predicate true, computed from the event's own geometry.
Qualified(view, e) ==
    /\ view = "visible"
    /\ e.scrollY + e.viewportH > e.fullH - 600

\* C1: in every reachable state 0 <= r <= N, N the length of the record
\* sequence, and no step decreases r (so none resets it to 0).
C1_CursorBoundedMonotone ==
    /\ [](0 <= rendered /\ rendered <= Len(PRODUCTS))
    /\ [][rendered' >= rendered]_vars

\* C1 witness: a scroll has advanced the cursor into the middle of a catalog.
C1_Witness ==
    /\ lastEvent.type = "scroll"
    /\ lastEvent.calls = 1
    /\ rendered = 2 * BATCH_SIZE
    /\ Len(PRODUCTS) > rendered

\* C2 (as claimed): every renderMore() call made with r < N appends the cards
\* of the records r .. min(r+24, N)-1 in order, sets r to min(r+24, N) and
\* writes the status line for the new r and N; a call with r >= N changes
\* neither the grid, nor r, nor the status line.  (A call from initDataView
\* finds the grid just emptied.)
C2_RenderMoreContract ==
    [][lastEvent'.calls = 1 =>
        LET total == Len(PRODUCTS')
            end == Min(rendered + BATCH_SIZE, total)
            before == IF initialized' /\ ~initialized THEN <<>> ELSE mainChildren
        IN  IF rendered < total
            THEN /\ mainChildren' = before \o cardsOf(PRODUCTS', rendered, end)
                 /\ rendered' = end
                 /\ footerText' = statusLine(end, total)
            ELSE /\ mainChildren' = before
                 /\ rendered' = rendered
                 /\ footerText' = footerText]_vars

\* C3: once Initialized the renderer stays Initialized, and any further
\* activation (a navigate, an activation timer, the load handler's own init
\* call) leaves the grid's children, r, the status line and the grid and
\* footer references unchanged.
C3_InitOnce ==
    [][initialized =>
        /\ initialized'
        /\ lastEvent'.type \in {"navigate", "timer", "loaded", "failed"} =>
             UNCHANGED <<mainChildren, rendered, footerText, grid, footerEl>>]_vars

\* C3 witness: an activation timer has fired on a renderer that was
\* Initialized before and has rendered two batches.
C3_Witness ==
    /\ lastEvent.type = "timer"
    /\ initialized
    /\ batches >= 2
    /\ Len(Cards) = 2 * BATCH_SIZE

\* C4 (as claimed): whenever the renderer is Initialized and the load has
\* finished with N records, r >= min(24, N).
C4_EagerFirstBatch ==
    (initialized /\ loadPc = "loaded") =>
        rendered >= Min(BATCH_SIZE, Len(PRODUCTS))

\* C5: with a loaded catalog of N records, after the activation render and
\* k-1 further renderMore calls (k = batches) r = min(24 k, N) and, for
\* N > 0, the status line reports r of N; for N = 50 that is 24 with
\* "Displaying 24 of 50 total items.", then 48, then 50; and a qualifying
\* scroll at r = N appends nothing.
C5_BatchTotals ==
    /\ []((batches >= 1 /\ batches < MaxBatches) =>
            /\ rendered = Min(BATCH_SIZE * batches, Len(PRODUCTS))
            /\ Len(Cards) = rendered
            /\ Len(PRODUCTS) > 0 => footerText = statusLine(rendered, Len(PRODUCTS)))
    /\ []((batches >= 1 /\ Len(PRODUCTS) = 50) =>
            /\ batches = 1 =>
                 /\ rendered = 24
                 /\ footerText = Chars("Displaying 24 of 50 total items.")
            /\ batches = 2 => rendered = 48
            /\ batches >= 3 => rendered = 50)
    /\ [][(batches >= 1 /\ rendered = Len(PRODUCTS) /\ lastEvent'.type = "scroll")
            => UNCHANGED <<mainChildren, rendered, footerText>>]_vars

\* C5 witness: N = 50, the activation render and three qualifying scrolls,
\* the last of which found nothing left.
C5_Witness ==
    /\ Len(PRODUCTS) = 50
    /\ batches = 4
    /\ rendered = 50
    /\ lastEvent.type = "scroll"
    /\ lastEvent.calls = 1

\* C6: if qualifying scrolls keep being delivered (the fairness of SpecLive,
\* with the view visible again and again), then from any state where the
\* load has completed and the renderer is Initialized, eventually r = N and
\* from then on r = N for ever.
C6_RendersToExhaustion ==
    []<>(dataView = "visible") =>
        []((loadPc = "loaded" /\ initialized) =>
              <>[](rendered = Len(PRODUCTS)))

\* C6 witness: a catalog of more than two batches rendered to its end by
\* scrolls.
C6_Witness ==
    /\ loadPc = "loaded"
    /\ initialized
    /\ Len(PRODUCTS) > 2 * BATCH_SIZE
    /\ rendered = Len(PRODUCTS)
    /\ lastEvent.type = "scroll"

\* C7: after a failed load the record sequence is empty, the scroll listener
\* is registered, no handler has let an exception escape, and, whatever
\* activations and scrolls follow, there are no cards, r = 0 and the status
\* line was never written.
C7_FailedLoadIsEmptyCatalog ==
    loadPc = "failed" =>
        /\ PRODUCTS = <<>>
        /\ scrollListener
        /\ ~uncaught
        /\ Cards = <<>>
        /\ rendered = 0
        /\ footerText = <<>>

\* C7 witness: after a failed load the view was initialized and a
\* qualifying scroll has called renderMore.
C7_Witness ==
    /\ loadPc = "failed"
    /\ initialized
    /\ lastEvent.type = "scroll"
    /\ lastEvent.calls = 1

\* C8: a scroll event with the view absent or hidden, or with scroll offset
\* + viewport height not greater than total height - 600, calls renderMore
\* not at all and leaves r, the grid and the status line unchanged; any
\* other scroll event calls renderMore exactly once, which on an
\* initialized grid renders one batch (at most 24 records, up to N).
C8_ScrollGate ==
    [][lastEvent'.type = "scroll" =>
        IF Qualified(dataView, lastEvent')
        THEN /\ lastEvent'.calls = 1
             /\ grid # "undefined" =>
                  /\ rendered' = Min(rendered + BATCH_SIZE, Len(PRODUCTS))
                  /\ Len(mainChildren') = Len(mainChildren) + (rendered' - rendered)
        ELSE /\ lastEvent'.calls = 0
             /\ UNCHANGED <<rendered, mainChildren, footerText>>]_vars

\* C8 witness: a scroll exactly on the boundary (offset + viewport = total
\* - 600) has arrived with the view visible and records left to render.
C8_Witness ==
    /\ lastEvent.type = "scroll"
    /\ dataView = "visible"
    /\ lastEvent.scrollY + lastEvent.viewportH = lastEvent.fullH - 600
    /\ initialized
    /\ rendered < Len(PRODUCTS)
    /\ rendered > 0

\* C15: a call of the wrapped navigate(page) calls the hook that existed
\* before, if there was one, once and with the same page, and returns what
\* the hook returned (undefined without a hook); it schedules one
\* initDataView if and only if page is "data"; and for any other page it
\* leaves the latch, r, the grid reference and the grid's children as they
\* were.
C15_NavigateWrapper ==
    [][lastEvent'.type = "navigate" =>
        /\ lastEvent'.hooked =
             (IF hasOriginalNavigate THEN <<lastEvent'.page>> ELSE <<>>)
        /\ lastEvent'.result =
             (IF hasOriginalNavigate
              THEN [defined |-> TRUE, page |-> lastEvent'.page] ELSE Undefined)
        /\ timers' = timers + (IF lastEvent'.page = "data" THEN 1 ELSE 0)
        /\ lastEvent'.page # "data" =>
             UNCHANGED <<initialized, rendered, grid, mainChildren>>]_vars

\* C15 witness: with a hook in place and a batch rendered, navigate("home")
\* has hidden the view, returned the hook's result and scheduled nothing.
C15_Witness ==
    /\ lastEvent.type = "navigate"
    /\ lastEvent.page = "home"
    /\ lastEvent.hooked = <<"home">>
    /\ lastEvent.result.defined
    /\ dataView = "hidden"
    /\ initialized
    /\ rendered = BATCH_SIZE
    /\ timers = 0

\* C15 second witness: without a hook, navigate("data") has scheduled an
\* initialization and returned undefined.
C15_Scheduled ==
    /\ lastEvent.type = "navigate"
    /\ lastEvent.page = "data"
    /\ ~hasOriginalNavigate
    /\ lastEvent.result = Undefined
    /\ timers = 1

\* C16 (as claimed): whenever the scroll handler calls renderMore() with
\* r < N the renderer is already Initialized, and the call does not fail on
\* an undefined grid.
C16_NoScrollBeforeInit ==
    [][(/\ lastEvent'.type = "scroll"
        /\ lastEvent'.calls = 1
        /\ rendered < Len(PRODUCTS))
          => (initialized /\ grid # "undefined" /\ ~lastEvent'.threw)]_vars

\* C17: in every reachable state the cards in the grid are those of the
\* records at the indices 0 .. r-1, in order and once each, and r > 0
\* implies Initialized; while r > 0 no step replaces the record sequence
\* and no step removes a child of the grid.
C17_GridIsRenderedPrefix ==
    /\ [](/\ Cards = cardsOf(PRODUCTS, 0, rendered)
          /\ rendered > 0 => initialized)
    /\ [][rendered > 0 =>
            /\ PRODUCTS' = PRODUCTS
            /\ Len(mainChildren') >= Len(mainChildren)
            /\ SubSeq(mainChildren', 1, Len(mainChildren)) = mainChildren]_vars

\* C17 witness: after two batches of a catalog of 50 an activation timer
\* has fired, and the grid still holds the cards of the records 0 .. 47.
C17_Witness ==
    /\ lastEvent.type = "timer"
    /\ Len(PRODUCTS) = 50
    /\ rendered = 2 * BATCH_SIZE
    /\ mainChildren = cardsOf(PRODUCTS, 0, 2 * BATCH_SIZE)
    /\ mainChildren[1].name # mainChildren[25].name

\* C18: an activation run while #data-view is absent sets no latch, leaves
\* r at 0 and creates no grid and no footer; an activation of an
\* Uninitialized renderer that finds #data-view performs the
\* initialization; and the latch is only ever set by an activation that
\* found #data-view.
C18_AbsentMountIsNoOp ==
    /\ [][(lastEvent'.type = "timer" /\ dataView = "absent") =>
            /\ ~initialized'
            /\ rendered' = 0
            /\ grid' = "undefined" /\ footerEl' = "undefined"
            /\ ~mainNode' /\ ~footerNode']_vars
    /\ [][(lastEvent'.type = "timer" /\ dataView # "absent" /\ ~initialized) =>
            /\ initialized'
            /\ grid' = "main" /\ footerEl' = "footer"
            /\ mainNode' /\ footerNode'
            /\ rendered' = Min(BATCH_SIZE, Len(PRODUCTS))]_vars
    /\ [][(~initialized /\ initialized') =>
            /\ dataView # "absent"
            /\ lastEvent'.type \in {"timer", "loaded", "failed"}]_vars

\* C18 witness: with records loaded, an activation timer has fired while
\* #data-view was absent and has left the renderer Uninitialized; another
\* activation is pending.
C18_Witness ==
    /\ lastEvent.type = "timer"
    /\ dataView = "absent"
    /\ Len(PRODUCTS) > 0
    /\ ~initialized
    /\ rendered = 0
    /\ grid = "undefined"
    /\ timers = 1

\* C18 second witness: with no hook to show it, #data-view is present and
\* hidden, and an activation after the load has initialized the renderer
\* and rendered the first batch.
C18_LaterActivation ==
    /\ lastEvent.type = "timer"
    /\ ~hasOriginalNavigate
    /\ dataView = "hidden"
    /\ loadPc = "loaded"
    /\ initialized
    /\ rendered = BATCH_SIZE
    /\ Len(PRODUCTS) > BATCH_SIZE

(***************************************************************************)
(* The loader on its own: every response body of a bounded shape           *)
(***************************************************************************)

\* Longest first column of a generated row.
MaxColLen == 5

\* Most lines of a generated multi-line body.
MaxLines == 3

RECURSIVE StringsUpTo(_, _)
StringsUpTo(alphabet, n) ==
    IF n = 0 THEN {<<>>}
    ELSE LET shorter == StringsUpTo(alphabet, n - 1)
         IN  shorter \cup {Append(s, ch) : s \in shorter, ch \in alphabet}

\* What follows the first column: no, one, two or three more columns.
RowTails == {<<>>, Chars("\tx"), Chars("\t\ti"), Chars("\tx\ti\tj")}

\* A data row after a first line that is itself a data row, so that the
\* row is parsed whatever it begins with.
RowBodies ==
    {Chars("[h]\tx\tk\n") \o col \o tail :
        col \in StringsUpTo({"[", "]", " ", "a"}, MaxColLen), tail \in RowTails}

\* Lines of a multi-line body: a header (one that would be accepted if it
\* were parsed as a row), rows that are accepted, a row without a name, a
\* line of white space and an empty line.  (Rows of fewer than three
\* columns are among RowBodies.)
LinePool ==
    {Chars("n[u]\tx\timage"), Chars("[a]\tx\ti"), Chars(" [b]\t\tj\tk"),
     Chars("[ ]\tx\ti"), Chars(" "), <<>>}

LineEnds == {Chars("\n"), Chars("\r\n")}

\* The bodies of up to n lines of the pool, each line ended by end.
RECURSIVE BodiesUpTo(_, _)
BodiesUpTo(n, end) ==
    IF n = 0 THEN {<<>>}
    ELSE LET shorter == BodiesUpTo(n - 1, end)
         IN  shorter \cup {b \o line \o end : b \in shorter, line \in LinePool}
                     \cup {b \o line : b \in shorter, line \in LinePool}

LoaderBodies ==
    RowBodies \cup UNION {BodiesUpTo(MaxLines, end) : end \in LineEnds}

InitLoader ==
    /\ Init
    /\ dataView = "hidden"
    /\ ~mainNode
    /\ ~footerNode
    /\ ~hasOriginalNavigate

NextLoader ==
    \/ windowLoad
    \/ (loadPc = "fetching" /\ \E text \in LoaderBodies : fetchOk(text))
    \/ textOk

SpecLoader == InitLoader /\ [][NextLoader]_vars

(***************************************************************************)
(* Properties of the loader                                                *)
(***************************************************************************)

\* The lines the loop parses: all of them, or all but a header.
DataLines ==
    LET lines == linesOf(body)
    IN  IF lines = <<>> THEN <<>> ELSE SubSeq(lines, startIdx(lines), Len(lines))

Accepted(line) == parseRow(line, 0) # NullRow

\* C9: the j-th record of the loader's output has id j (ids 1, 2, ..., k
\* without a gap), and the records are those of the accepted lines in the
\* order of the lines.
C9_DenseIds ==
    loadPc = "loaded" =>
        LET accepted == SelectSeq(DataLines, Accepted)
        IN  /\ Len(PRODUCTS) = Len(accepted)
            /\ \A j \in 1..Len(PRODUCTS) :
                  /\ PRODUCTS[j].id = j
                  /\ PRODUCTS[j].name = parseRow(accepted[j], 0).name
                  /\ PRODUCTS[j].image = parseRow(accepted[j], 0).image

\* C9 witness: a row was dropped between two rows that were accepted, and
\* the second accepted row has id 2.
C9_Witness ==
    /\ loadPc = "loaded"
    /\ Len(DataLines) = 3
    /\ Accepted(DataLines[1])
    /\ ~Accepted(DataLines[2])
    /\ Accepted(DataLines[3])
    /\ Len(PRODUCTS) = 2
    /\ PRODUCTS[2].id = 2

\* The number of tab-delimited columns of a line and its first column.
Columns(line) == Cardinality({i \in 1..Len(line) : line[i] = "\t"}) + 1

FirstColumn(line) == SubSeq(line, 1, cutAt(line, "\t") - 1)

\* What stands between the first "[" of a column and the first "]" after it;
\* found is FALSE when there is no such pair.
FirstPair(col) ==
    LET opens == {i \in 1..Len(col) : col[i] = "["}
        i == MinOf(opens)
        closes == {j \in 1..Len(col) : j > i /\ col[j] = "]"}
    IN  IF opens = {} \/ closes = {} THEN [found |-> FALSE, inside |-> <<>>]
        ELSE [found |-> TRUE, inside |-> SubSeq(col, i + 1, MinOf(closes) - 1)]

\* The same for the first "[" that is not directly followed by "]": an
\* empty "[]" is passed over.
FirstFilledPair(col) ==
    LET opens == {i \in 1..(Len(col) - 1) : col[i] = "[" /\ col[i + 1] # "]"}
        i == MinOf(opens)
        closes == {j \in 1..Len(col) : j > i /\ col[j] = "]"}
    IN  IF opens = {} THEN [found |-> FALSE, inside |-> <<>>]
        ELSE IF closes = {} THEN [found |-> FALSE, inside |-> <<>>]
        ELSE [found |-> TRUE, inside |-> SubSeq(col, i + 1, MinOf(closes) - 1)]

\* The pair a rule finds in a column: "first" is FirstPair, "filled" is
\* FirstFilledPair.
PairBy(rule, col) ==
    IF rule = "first" THEN FirstPair(col) ELSE FirstFilledPair(col)

\* The names of the rows a rule accepts among the parsed lines, in order:
\* a line is accepted when it has three columns or more and the rule finds
\* a pair whose inside is not empty after trimming; its name is that
\* trimmed inside.
NamesBy(rule) ==
    LET ok(line) == /\ Columns(line) >= 3
                    /\ PairBy(rule, FirstColumn(line)).found
                    /\ trim(PairBy(rule, FirstColumn(line)).inside) # <<>>
        kept == SelectSeq(DataLines, ok)
    IN  [k \in 1..Len(kept) |-> trim(PairBy(rule, FirstColumn(kept[k])).inside)]

LoadedNames == [k \in 1..Len(PRODUCTS) |-> PRODUCTS[k].name]

\* C10 (as claimed): the loader's records are exactly the lines with at
\* least 3 tab-delimited columns whose first "[...]" pair in the first
\* column exists and is non-empty after trimming, each named by the trimmed
\* inside of that first pair.
C10_FirstPairRule ==
    loadPc = "loaded" => LoadedNames = NamesBy("first")

\* C10 (amended): as C10, for the first "[" that is followed by at least one
\* character other than "]" before its closing "]": an empty "[]" is not a
\* pair, and the row is then judged by the next "[".
C10_FirstFilledPairRule ==
    loadPc = "loaded" => LoadedNames = NamesBy("filled")

\* C10 witness: a row whose first column is "[][a]" was accepted under the
\* name "a".
C10_Witness ==
    /\ loadPc = "loaded"
    /\ Len(DataLines) = 2
    /\ FirstColumn(DataLines[2]) = Chars("[][a]")
    /\ Len(PRODUCTS) = 2
    /\ PRODUCTS[2].name = Chars("a")

\* The text cut at its line boundaries, a line feed or a carriage return
\* and a line feed: the lines from position i on, line being the characters
\* of the current line read so far.
RECURSIVE ScanLines(_, _, _)
ScanLines(text, i, line) ==
    IF i > Len(text) THEN <<line>>
    ELSE IF text[i] = "\n" THEN <<line>> \o ScanLines(text, i + 1, <<>>)
    ELSE IF text[i] = "\r" /\ i < Len(text) /\ text[i + 1] = "\n"
    THEN <<line>> \o ScanLines(text, i + 2, <<>>)
    ELSE ScanLines(text, i + 1, Append(line, text[i]))

\* The lines that remain when the empty ones are discarded.
RemainingLines(text) ==
    SelectSeq(ScanLines(text, 1, <<>>), LAMBDA l : Len(l) > 0)

\* The first character of the line that is not white space is a "[".
BeginsWithBracket(line) ==
    LET t == trim(line)
    IN  Len(t) > 0 /\ t[1] = "["

\* The records of the accepted rows among lines, numbered in order.
RecordsOf(lines) ==
    LET accepted == SelectSeq(lines, Accepted)
    IN  [j \in 1..Len(accepted) |-> parseRow(accepted[j], j - 1)]

\* C11: the loader discards the blank (empty) lines, skips the first
\* remaining line as a header if and only if it does not begin with "["
\* after optional white space, and its output is exactly the accepted rows
\* of the lines then left; a first line that begins with "[" is parsed as
\* data.
C11_HeaderRule ==
    loadPc = "loaded" =>
        LET lines == RemainingLines(body)
        IN  IF lines = <<>> THEN PRODUCTS = <<>>
            ELSE IF BeginsWithBracket(lines[1]) THEN PRODUCTS = RecordsOf(lines)
            ELSE PRODUCTS = RecordsOf(Tail(lines))

\* C11 witness: after an empty line the first remaining line begins with
\* white space and "[" and was parsed as the first record, and a later line
\* that does not begin with "[" was parsed as well.
C11_Witness ==
    /\ loadPc = "loaded"
    /\ Len(body) > 0
    /\ body[1] \in {"\n", "\r"}
    /\ Len(RemainingLines(body)) = 2
    /\ RemainingLines(body)[1] = Chars(" [b]\t\tj\tk")
    /\ Len(PRODUCTS) = 2
    /\ PRODUCTS[1].name = Chars("b")
    /\ PRODUCTS[2].name = Chars("u")

\* C11 second case: the first remaining line is a header and is skipped
\* although it would be accepted as a row.
C11_HeaderSkipped ==
    /\ loadPc = "loaded"
    /\ Len(RemainingLines(body)) = 2
    /\ Accepted(RemainingLines(body)[1])
    /\ ~BeginsWithBracket(RemainingLines(body)[1])
    /\ Len(PRODUCTS) = 1
    /\ PRODUCTS[1].name = Chars("a")

(***************************************************************************)
(* The normalisation helpers on their own                                  *)
(***************************************************************************)

\* Longest raw price.
MaxPriceLen == 4

\* Raw prices: the characters formatPrice strips, white space, digits, a
\* decimal point, a sign and a letter.
PriceAlphabet == {"$", ",", " ", "1", "5", ".", "-", "N"}

PriceRaws == StringsUpTo(PriceAlphabet, MaxPriceLen)

\* The variables of the program, which a helper applied on its own leaves
\* alone.
programVars ==
    <<PRODUCTS, rendered, initialized, grid, footerEl, dataView, mainNode,
      mainChildren, footerNode, footerText, loadPc, body, scrollListener,
      timers, hasOriginalNavigate, uncaught, batches, lastEvent>>

Pending(fn, arg) == [fn |-> fn, arg |-> arg, done |-> FALSE, result |-> <<>>]

\* The "(link)" and "{price}" segments of the first column of a row: none,
\* broken ones, empty and blank ones and filled ones.
LinkSegments ==
    {<<>>, Chars("()"), Chars("( )"), Chars("(x)"),
     Chars("( http://h/p?ref=OLD&x=1 )")}

PriceSegments ==
    {<<>>, Chars("{"), Chars("}{"), Chars("{}"), Chars("{ }"), Chars("{1}"),
     Chars("{ $1,5.5 }"), Chars("{N/A}")}

\* Rows "[name](link){price}%category% TAB x TAB image", and the same rows
\* without a name.
RowLines ==
    {name \o l \o p \o Chars("%Cat%\tx\t img ") :
        name \in {Chars(" [a]"), Chars("a")},
        l \in LinkSegments, p \in PriceSegments}

\* Links: absolute URLs put together from a scheme, a host, a path, a query
\* and a fragment (hosts that are names, paths without dot segments), and
\* strings that are no absolute URL.
LinkQueries ==
    {<<>>, Chars("?"), Chars("?ref=OLD"), Chars("?ref=OLD&x=1"),
     Chars("?x=1&ref=A&y=a+b&ref=B"), Chars("?x=a/b&&y"), Chars("?ref")}

LinkFragments == {<<>>, Chars("#f"), Chars("#?ref=1")}

AbsoluteLinks ==
    {scheme \o host \o path \o query \o fragment :
        scheme \in {Chars("https://"), Chars("HTTP://")},
        host \in {Chars("x.com"), Chars("H")},
        path \in {<<>>, Chars("/p")},
        query \in LinkQueries, fragment \in LinkFragments}
    \cup {Chars("mailto:a") \o query \o fragment :
             query \in LinkQueries, fragment \in LinkFragments}

OtherLinks ==
    {<<>>, Chars("not a url"), Chars("www.x.com/p?ref=OLD"),
     Chars("/p?ref=1"), Chars("https://"), Chars("http:?ref=1"),
     Chars(":x"), Chars("1http://h/?ref=1")}

Links == AbsoluteLinks \cup OtherLinks

PendingCalls ==
    {Pending("formatPrice", raw) : raw \in PriceRaws \cup {Null}}
    \cup {Pending("parseRow", line) : line \in RowLines}
    \cup {Pending("updateRef", link) : link \in Links}

InitNormalise ==
    /\ ScriptRan
    /\ dataView = "hidden"
    /\ ~mainNode
    /\ ~footerNode
    /\ ~hasOriginalNavigate
    /\ call \in PendingCalls

\* formatPrice(raw) is applied to the pending argument.
formatPriceCall ==
    /\ call.fn = "formatPrice"
    /\ ~call.done
    /\ call' = [call EXCEPT !.done = TRUE, !.result = formatPrice(call.arg)]
    /\ UNCHANGED programVars

\* parseRow(line, 0) is applied to the pending line.
parseRowCall ==
    /\ call.fn = "parseRow"
    /\ ~call.done
    /\ call' = [call EXCEPT !.done = TRUE, !.result = parseRow(call.arg, 0)]
    /\ UNCHANGED programVars

\* updateRef(link) is applied to the pending link.
updateRefCall ==
    /\ call.fn = "updateRef"
    /\ ~call.done
    /\ call' = [call EXCEPT !.done = TRUE, !.result = updateRef(call.arg)]
    /\ UNCHANGED programVars

\* updateRef is applied to a link it has returned.
updateRefAgain ==
    /\ call.fn = "updateRef"
    /\ call.done
    /\ call' = [fn |-> "updateRef again", arg |-> call.result, done |-> TRUE,
                result |-> updateRef(call.result)]
    /\ UNCHANGED programVars

NextNormalise ==
    \/ formatPriceCall
    \/ parseRowCall
    \/ updateRefCall
    \/ updateRefAgain

SpecNormalise == InitNormalise /\ [][NextNormalise]_vars

(***************************************************************************)
(* Properties of the normalisation helpers                                 *)
(***************************************************************************)

\* The raw price without its "$" and ",", surrounding white space removed.
Stripped(raw) == trim(SelectSeq(raw, LAMBDA ch : ch \notin {"$", ","}))

\* s is a decimal numeral: an optional sign, then digits with at most one
\* decimal point among them, one digit at least.
IsDecimal(s) ==
    /\ Len(s) > 0
    /\ LET u == IF s[1] \in {"+", "-"} THEN Tail(s) ELSE s
           digits == {i \in 1..Len(u) : isDigit(u[i])}
           dots == {i \in 1..Len(u) : u[i] = "."}
       IN  /\ digits \cup dots = 1..Len(u)
           /\ Cardinality(dots) <= 1
           /\ digits # {}

\* t is "$", an optional "-", an integer part without needless zeros, a
\* decimal point and exactly two digits, and the amount it states is a
\* hundredth nearest to the number s states.
IsPriceOf(t, s) ==
    /\ Len(t) >= 5
    /\ t[1] = "$"
    /\ LET u == IF t[2] = "-" THEN SubSeq(t, 3, Len(t)) ELSE SubSeq(t, 2, Len(t))
           int == SubSeq(u, 1, Len(u) - 3)
           dec == SubSeq(u, Len(u) - 1, Len(u))
           n == Number(s)
       IN  /\ Len(u) >= 4
           /\ u[Len(u) - 2] = "."
           /\ \A i \in 1..Len(int) : isDigit(int[i])
           /\ \A i \in 1..2 : isDigit(dec[i])
           /\ int = digitsOf(digitsValue(int))
           /\ LET cents == 100 * digitsValue(int) + digitsValue(dec)
              IN  /\ 10 * cents - 5 <= n.milli
                  /\ n.milli <= 10 * cents + (IF n.more THEN 4 ELSE 5)
           /\ (t[2] = "-") => (s[1] = "-")

PriceDone == call.fn = "formatPrice" /\ call.done /\ call.arg # Null

\* C12 (as claimed): for a raw string, with s the string stripped of "$",
\* "," and surrounding white space: a numeric s gives "$" and the number
\* with exactly two decimal digits; a non-numeric or empty s gives "$"
\* followed by s as it is ("$" alone for the empty s).
C12_PriceAsClaimed ==
    PriceDone =>
        LET s == Stripped(call.arg)
        IN  IF IsDecimal(s) THEN IsPriceOf(call.result, s)
            ELSE call.result = <<"$">> \o s

\* C12 (amended): as C12, but the empty s counts as the number 0 and gives
\* "$0.00".
C12_PriceEmptyIsZero ==
    PriceDone =>
        LET s == Stripped(call.arg)
        IN  IF s = <<>> THEN call.result = Chars("$0.00")
            ELSE IF IsDecimal(s) THEN IsPriceOf(call.result, s)
            ELSE call.result = <<"$">> \o s

\* C12 witness: a raw price of "$", "," and a blank only, whose s is empty,
\* came out as "$0.00".
C12_Witness ==
    /\ PriceDone
    /\ call.arg = Chars("$ ,")
    /\ call.result = Chars("$0.00")

\* C12, further cases reached: a number between separators, a tie decided
\* by the double, and a string that is no number.
C12_Cases ==
    /\ formatPrice(Chars("$1,5")) = Chars("$15.00")
    /\ formatPrice(Chars(" 1.5")) = Chars("$1.50")
    /\ formatPrice(Chars(".115")) = Chars("$0.12")
    /\ formatPrice(Chars(".155")) = Chars("$0.15")
    /\ formatPrice(Chars("-.5")) = Chars("$-0.50")
    /\ formatPrice(Chars("$ N ")) = Chars("$N")
    /\ formatPrice(Chars("N/A")) = Chars("$N/A")

\* The column has no "{" with a "}" after it.
NoPriceSegment(col) ==
    ~\E i \in 1..Len(col), j \in 1..Len(col) :
        i < j /\ col[i] = "{" /\ col[j] = "}"

RowDone == call.fn = "parseRow" /\ call.done

\* C13: the record of an accepted row whose first column has no "{...}"
\* price segment has the price "$0.00", and formatPrice of null (or
\* undefined) is "$0.00".
C13_MissingPriceIsZero ==
    /\ (RowDone /\ NoPriceSegment(FirstColumn(call.arg))) =>
          (call.result # NullRow => call.result.price = Chars("$0.00"))
    /\ (call.fn = "formatPrice" /\ call.done /\ call.arg = Null) =>
          call.result = Chars("$0.00")

\* C13 witness: a row with a name and a link but no price segment was
\* accepted with the price "$0.00".
C13_Witness ==
    /\ RowDone
    /\ call.arg = Chars(" [a](x)%Cat%\tx\t img ")
    /\ call.result.name = Chars("a")
    /\ call.result.price = Chars("$0.00")

\* C13 second witness: formatPrice was applied to null.
C13_NullPrice ==
    /\ call.fn = "formatPrice"
    /\ call.done
    /\ call.arg = Null
    /\ call.result = Chars("$0.00")

\* The name=value pairs of the query of a link that is an absolute URL.
QueryPairs(link) == searchParams(parseURL(link).query)

IsRef(pair) == pair.name = Chars("ref")

LinkDone == call.fn = "updateRef" /\ call.done

\* The column has no "(" with a ")" after it.
NoLinkSegment(col) ==
    ~\E i \in 1..Len(col), j \in 1..Len(col) :
        i < j /\ col[i] = "(" /\ col[j] = ")"

\* C14: for a link that parses as an absolute URL the result is an absolute
\* URL with one ref parameter, of value 100201678, and with every other
\* query parameter as it was, name and value, in order; a link that does
\* not parse is returned unchanged; an empty link stays empty (in updateRef
\* and in the record of a row without a link); and rewriting a rewritten
\* link changes nothing.
C14_LinkRewrite ==
    /\ LinkDone =>
          IF parseURL(call.arg).ok
          THEN /\ parseURL(call.result).ok
               /\ SelectSeq(QueryPairs(call.result), IsRef)
                    = <<[name |-> Chars("ref"), value |-> RefValue]>>
               /\ SelectSeq(QueryPairs(call.result), LAMBDA q : ~IsRef(q))
                    = SelectSeq(QueryPairs(call.arg), LAMBDA q : ~IsRef(q))
          ELSE call.result = call.arg
    /\ (LinkDone /\ call.arg = <<>>) => call.result = <<>>
    /\ (RowDone /\ NoLinkSegment(FirstColumn(call.arg))) =>
          (call.result # NullRow => call.result.link = <<>>)
    /\ (call.fn = "updateRef again") => call.result = call.arg

\* C14 witness: "https://x.com/p?ref=OLD&x=1" was rewritten, and the result
\* rewritten once more.
C14_Witness ==
    /\ call.fn = "updateRef again"
    /\ call.arg = Chars("https://x.com/p?ref=100201678&x=1")
    /\ call.result = call.arg

\* C14, cases reached: the example of the specification, a parameter
\* inserted before the fragment, and a string that is no URL.
C14_Cases ==
    /\ updateRef(Chars("https://x.com/p?ref=OLD&x=1"))
         = Chars("https://x.com/p?ref=100201678&x=1")
    /\ updateRef(Chars("HTTP://H#f")) = Chars("http://h/?ref=100201678#f")
    /\ updateRef(Chars("mailto:a?x=a/b&&y"))
         = Chars("mailto:a?x=a%2Fb&y=&ref=100201678")
    /\ updateRef(Chars("https://x.com?x=1&ref=A&y=a+b&ref=B"))
         = Chars("https://x.com/?x=1&ref=100201678&y=a+b")
    /\ updateRef(Chars("not a url")) = Chars("not a url")
    /\ updateRef(Chars("www.x.com/p?ref=OLD")) = Chars("www.x.com/p?ref=OLD")

====
